---- MODULE Spec2Model ----
(***************************************************************************)
(* A model of the LLM call gateway (src/utils/call_llm.py: call_llm with   *)
(* its JSON cache file and its log) and of the tutorial pipeline's entry   *)
(* point (src/main.py: main, the shared dictionary and the flow it runs).  *)
(***************************************************************************)
EXTENDS Naturals, Sequences, FiniteSets, TLC

(***************************************************************************)
(* Bounds of the model.                                                    *)
(***************************************************************************)
\* calls one caller makes, one after the other
MaxCalls == 2

\* the processes that share the cache file
Procs == {"A", "B"}

\* prompt texts (the first is the test prompt of call_llm.py line 254)
Prompts == {"Hello, how are you?", "Identify abstractions in file X"}

\* response texts of the backend; "" is an empty completion
Responses == {"R1", "R2", ""}

\* marks a key that a dict does not hold
Absent == "<absent>"

\* marks a Python None
None == "<None>"

(***************************************************************************)
(* The cache file (call_llm.py line 25) and the Python values json.load    *)
(* makes of it.  A file is missing, holds text that is not JSON            *)
(* ("garbage": an empty or half-written file included), or holds a JSON    *)
(* document: an object, an array or a scalar (number, true, false, null).  *)
(* A JSON string behaves as an array does (`in` is defined, indexing by a  *)
(* str is not) and is covered by it.                                       *)
(***************************************************************************)
EmptyMap == [q \in Prompts |-> Absent]

MissingFile == [kind |-> "missing", map |-> EmptyMap, elems |-> {}]

GarbageFile == [kind |-> "garbage", map |-> EmptyMap, elems |-> {}]

ScalarFile == [kind |-> "scalar", map |-> EmptyMap, elems |-> {}]

ListFile(S) == [kind |-> "list", map |-> EmptyMap, elems |-> S]

MapFile(m) == [kind |-> "object", map |-> m, elems |-> {}]

\* the dict literal {} of lines 56 and 85
EmptyDict == [type |-> "dict", map |-> EmptyMap, elems |-> {}]

\* os.path.exists(cache_file), lines 57 and 86
exists(f) == f.kind # "missing"

\* json.load(f) of lines 60 and 89: raises on text that is not JSON
json_load_raises(f) == f.kind = "garbage"

\* json.load that yields an empty dict whatever the document holds
json_load_empty(f) == [type |-> "dict", map |-> EmptyMap, elems |-> {}]

\* json.load(f) of lines 60 and 89: the value of a JSON document
json_load(f) ==
    CASE f.kind = "object" -> [type |-> "dict", map |-> f.map, elems |-> {}]
      [] f.kind = "list"   -> [type |-> "list", map |-> EmptyMap, elems |-> f.elems]
      [] OTHER             -> [type |-> "scalar", map |-> EmptyMap, elems |-> {}]

\* json.dump(cache, f) of line 97: the document written for a value
json_dump(v) ==
    CASE v.type = "dict" -> MapFile(v.map)
      [] v.type = "list" -> ListFile(v.elems)
      [] OTHER           -> ScalarFile

\* LoadCache that leaves an empty list, not an empty dict, when the load fails
LoadCacheFailsToList(f) ==
    IF ~exists(f) THEN [cache |-> EmptyDict, err |-> FALSE, opened |-> FALSE]
    ELSE IF json_load_raises(f)
         THEN [cache |-> json_load(ListFile({})), err |-> TRUE, opened |-> TRUE]
         ELSE [cache |-> json_load(f), err |-> FALSE, opened |-> TRUE]

\* LoadCache with a silent except clause: the failure is not logged
LoadCacheSilent(f) ==
    IF ~exists(f) THEN [cache |-> EmptyDict, err |-> FALSE, opened |-> FALSE]
    ELSE IF json_load_raises(f)
         THEN [cache |-> EmptyDict, err |-> FALSE, opened |-> TRUE]
         ELSE [cache |-> json_load(f), err |-> FALSE, opened |-> TRUE]

\* lines 56-62 and 85-91: cache = {}, replaced by the loaded value when the
\* file exists and parses; err tells that logger.error was called
LoadCache(f) ==
    IF ~exists(f) THEN [cache |-> EmptyDict, err |-> FALSE, opened |-> FALSE]
    ELSE IF json_load_raises(f)
         THEN [cache |-> EmptyDict, err |-> TRUE, opened |-> TRUE]
         ELSE [cache |-> json_load(f), err |-> FALSE, opened |-> TRUE]

\* In with a dict's keys never found
InNeverFound(prompt, cache) ==
    CASE cache.type = "dict" -> "false"
      [] cache.type = "list" -> IF prompt \in cache.elems THEN "true" ELSE "false"
      [] OTHER               -> "TypeError"

\* `prompt in cache` of line 65: membership in a dict's keys or a list's
\* elements; a scalar is not iterable (TypeError)
In(prompt, cache) ==
    CASE cache.type = "dict" -> IF cache.map[prompt] # Absent THEN "true" ELSE "false"
      [] cache.type = "list" -> IF prompt \in cache.elems THEN "true" ELSE "false"
      [] OTHER               -> "TypeError"

\* `cache[prompt]` of lines 66-67: only a dict is indexed by a string
GetItemRaises(cache) == cache.type # "dict"

\* GetItem that answers the key instead of its value
GetItemKey(cache, prompt) == prompt

GetItem(cache, prompt) == cache.map[prompt]

\* `cache[prompt] = response_text` of line 94: only a dict accepts it
SetItemRaises(cache) == cache.type # "dict"

\* SetItem that starts a fresh dict holding the new entry alone
SetItemFresh(cache, prompt, text) ==
    [cache EXCEPT !.map = [EmptyMap EXCEPT ![prompt] = text]]

\* SetItem that drops the new entry
SetItemDropped(cache, prompt, text) == cache

\* SetItem that keeps the value a key already has (dict.setdefault)
SetItemKeepFirst(cache, prompt, text) ==
    IF cache.map[prompt] # Absent THEN cache
    ELSE [cache EXCEPT !.map = [@ EXCEPT ![prompt] = text]]

SetItem(cache, prompt, text) ==
    [cache EXCEPT !.map = [@ EXCEPT ![prompt] = text]]

\* the estimate without the division: one token per character
estimate_tokens_per_char(text) == Len(text)

\* estimate_tokens, lines 29-41
estimate_tokens(text) == Len(text) \div 4

(***************************************************************************)
(* The log: the records one call appends (logger.info, logger.error).      *)
(***************************************************************************)
LogRec(level, tag, text) == [level |-> level, tag |-> tag, text |-> text]

(***************************************************************************)
(* The backend: client.chat.completions.create and the read of             *)
(* response.choices[0].message.content, lines 70-77.  It answers with a    *)
(* text, or raises (a network or API error, or a response without          *)
(* choices).                                                               *)
(***************************************************************************)
BackendOutcomes ==
    [kind : {"text"}, text : Responses] \cup {[kind |-> "raise", text |-> None]}

(***************************************************************************)
(* State.                                                                  *)
(***************************************************************************)
VARIABLES
    file,       \* the content of llm_cache.json
    proc,       \* per process: the call_llm invocation it is in
    args,       \* main: the parsed command line
    shared,     \* main: the shared dictionary handed to the flow
    flow,       \* the flow's state: not started, running stage i, ...
    last_saver, \* history: the process whose json.dump reached the file last
    settled     \* history: the entries the file held when no call was in
                \* progress (recorded under AtomicSpec only)

vars == <<file, proc, args, shared, flow, last_saver, settled>>

disk == <<file, last_saver>>

main_vars == <<args, shared, flow>>

NoPrev == [outcome |-> "none", prompt |-> None, use_cache |-> FALSE,
           result |-> None, requests |-> 0, saved |-> FALSE, hit |-> FALSE]

IdleProc(calls, prev) ==
    [pc |-> "idle", prompt |-> None, use_cache |-> FALSE, cache |-> EmptyDict,
     response_text |-> None, result |-> None, error |-> None,
     requests |-> 0, reads |-> 0,
     writes |-> 0, saved |-> FALSE, hit |-> FALSE, log |-> <<>>,
     start |-> MissingFile, calls |-> calls, prev |-> prev]

\* the cache files a run may find
InitFiles ==
    {MissingFile, GarbageFile, ScalarFile}
    \cup {ListFile(S) : S \in SUBSET Prompts}
    \cup {MapFile(m) : m \in [Prompts -> Responses \cup {Absent}]}

(***************************************************************************)
(* main (src/main.py): the command line, the default patterns and the      *)
(* shared dictionary.                                                      *)
(***************************************************************************)
DEFAULT_INCLUDE_PATTERNS ==
    {"*.py", "*.js", "*.jsx", "*.ts", "*.tsx", "*.go", "*.java", "*.pyi", "*.pyx",
     "*.c", "*.cc", "*.cpp", "*.h", "*.md", "*.rst", "Dockerfile",
     "Makefile", "*.yaml", "*.yml"}

TEXT_ONLY_INCLUDE_PATTERNS ==
    {"*.md", "*.txt", "*.rst", "*.markdown", "README*", "documentation/*",
     "docs/*", "*.html", "*.mdx"}

DEFAULT_EXCLUDE_PATTERNS ==
    {"assets/*", "data/*", "examples/*", "images/*", "public/*", "static/*", "temp/*",
     "docs/*",
     "venv/*", ".venv/*", "*test*", "tests/*", "v1/*",
     "dist/*", "build/*", "experimental/*", "deprecated/*", "misc/*",
     "legacy/*", ".git/*", ".github/*", ".next/*", ".vscode/*", "obj/*", "bin/*",
     "node_modules/*", "*.log"}

TEXT_ONLY_EXCLUDE_PATTERNS ==
    {"venv/*", ".venv/*", "node_modules/*", ".git/*", ".github/*", ".next/*",
     ".vscode/*", "dist/*", "build/*", "obj/*", "bin/*", "*.log"}

\* the defaults of lines 72, 78 and 82
DefaultMaxSize == 100000

DefaultMaxAbstractions == 10

DefaultMaxTokens == 30000

\* the command lines tried: --repo, --dir, --token, --include, --exclude
\* (an option that is not given is None; for the two lists, the empty set),
\* --no-cache and --text-only; the other options keep their defaults.
\* `--repo ""` is a command line too: the option is given, its value empty.
ArgSets ==
    [repo : {None, "", "https://github.com/o/r"}, dir : {None, "/repo"},
     token : {None, "ghp_t"},
     include : {{}, {"*.py", "*.js"}}, exclude : {{}, {"tests/*"}},
     no_cache : BOOLEAN, text_only : BOOLEAN]

\* what args holds before the command line is parsed
NoArgs == [repo |-> None, dir |-> None, token |-> None, include |-> {},
           exclude |-> {}, no_cache |-> FALSE, text_only |-> FALSE]

\* the group without required=True: only both options together are refused
SourceGroupNotRequired(a) == ~(a.repo # None /\ a.dir # None)

\* lines 62-65 and 84: the required mutually exclusive group --repo | --dir;
\* argparse takes an option as given when its value is not the default None
SourceGroupOk(a) == (a.repo # None) # (a.dir # None)

\* the truth value Python gives an optional string
Truthy(s) == s # None /\ s # ""

\* lines 86-91, with no GITHUB_TOKEN in the environment
GithubToken(a) == IF Truthy(a.repo) THEN a.token ELSE None

\* line 94
IncludePatterns(a) ==
    IF a.include # {} THEN a.include
    ELSE IF a.text_only THEN TEXT_ONLY_INCLUDE_PATTERNS ELSE DEFAULT_INCLUDE_PATTERNS

\* the exclude set chosen without a look at --text-only
ExcludePatternsCodeOnly(a) ==
    IF a.exclude # {} THEN a.exclude ELSE DEFAULT_EXCLUDE_PATTERNS

\* line 95
ExcludePatterns(a) ==
    IF a.exclude # {} THEN a.exclude
    ELSE IF a.text_only THEN TEXT_ONLY_EXCLUDE_PATTERNS ELSE DEFAULT_EXCLUDE_PATTERNS

\* the outputs with the output directory filled in from the start
InitialOutputsWithDir ==
    [files |-> <<>>, abstractions |-> <<>>, relationships |-> <<>>,
     chapter_order |-> <<>>, chapters |-> <<>>, final_output_dir |-> "output"]

\* the outputs with a list that is not empty from the start
InitialOutputsPrefilled ==
    [files |-> <<>>, abstractions |-> <<>>, relationships |-> <<>>,
     chapter_order |-> <<>>, chapters |-> << "chapters" >>,
     final_output_dir |-> None]

\* lines 126-131: the outputs as main creates them, empty or None
\* (the empty dict of `relationships` is written as the empty list is)
InitialOutputs ==
    [files |-> <<>>, abstractions |-> <<>>, relationships |-> <<>>,
     chapter_order |-> <<>>, chapters |-> <<>>, final_output_dir |-> None]

\* lines 98-132: the shared dictionary
InitialShared(a) ==
    [repo_url |-> a.repo, local_dir |-> a.dir, project_name |-> None,
     github_token |-> GithubToken(a), output_dir |-> "output",
     include_patterns |-> IncludePatterns(a),
     exclude_patterns |-> ExcludePatterns(a),
     max_file_size |-> DefaultMaxSize, language |-> "english",
     use_cache |-> ~a.no_cache,
     max_abstraction_num |-> DefaultMaxAbstractions,
     text_only |-> a.text_only, max_tokens |-> DefaultMaxTokens,
     files |-> InitialOutputs.files,
     abstractions |-> InitialOutputs.abstractions,
     relationships |-> InitialOutputs.relationships,
     chapter_order |-> InitialOutputs.chapter_order,
     chapters |-> InitialOutputs.chapters,
     final_output_dir |-> InitialOutputs.final_output_dir]

Init ==
    /\ file \in InitFiles
    /\ proc = [p \in Procs |-> IdleProc(0, NoPrev)]
    \* main has not run: no command line yet, the dictionary not yet built
    /\ args = NoArgs
    /\ shared = InitialShared(NoArgs)
    /\ flow = [state |-> "not_started", stage |-> 0, error |-> None]
    /\ last_saver = "none"
    /\ settled = EmptyMap

(***************************************************************************)
(* call_llm, lines 45-101, one action per step that other processes can    *)
(* interleave with.                                                        *)
(***************************************************************************)

\* line 54: `if use_cache:` before the backend is asked
AfterLog(use_cache) == IF use_cache THEN "lookup" ELSE "request"

\* the failure of the backend swallowed, the call going on to the cache
OnBackendRaiseSwallowed == "reload"

\* lines 73-77 stand in no try block: what the backend raises leaves call_llm
OnBackendRaise == "raised"

\* the cache updated whatever use_cache says
AfterResponseAlwaysCache(use_cache) == "reload"

\* line 83: `if use_cache:` after the backend answered
AfterResponse(use_cache) == IF use_cache THEN "reload" ELSE "returned"

\* a failed save left to propagate
OnSaveErrorRaised == "raised"

\* lines 98-101: a failed save is logged and the response is returned
OnSaveError == "returned"

\* lines 45-54: the prompt and the token estimate are logged
\* (observe: whether the file as the call found it is kept in `start`)
Call(p, prompt, use_cache, observe) ==
    /\ proc[p].pc = "idle"
    /\ proc[p].calls < MaxCalls
    /\ proc' = [proc EXCEPT ![p] =
            [@ EXCEPT !.pc = AfterLog(use_cache),
                      !.prompt = prompt,
                      !.use_cache = use_cache,
                      !.start = IF observe THEN file ELSE MissingFile,
                      !.log = << LogRec("INFO", "PROMPT", prompt),
                                 LogRec("INFO", "TOKENS",
                                        ToString(estimate_tokens(prompt))) >>]]
    /\ UNCHANGED disk

\* lines 55-67: load the cache, return the stored response on a hit
Lookup(p) ==
    /\ proc[p].pc = "lookup"
    /\ LET ld   == LoadCache(file)
           me   == proc[p]
           log1 == IF ld.err
                   THEN Append(me.log, LogRec("ERROR", "LOAD", "Failed to load cache"))
                   ELSE me.log
           rd   == IF ld.opened THEN me.reads + 1 ELSE me.reads
           isin == In(me.prompt, ld.cache)
       IN  proc' = [proc EXCEPT ![p] =
             IF isin = "TypeError" \/ (isin = "true" /\ GetItemRaises(ld.cache))
             THEN [me EXCEPT !.pc = "raised", !.error = "TypeError",
                             !.cache = ld.cache, !.log = log1, !.reads = rd]
             ELSE IF isin = "true"
             THEN [me EXCEPT !.pc = "returned", !.cache = ld.cache,
                             !.reads = rd, !.hit = TRUE,
                             !.result = GetItem(ld.cache, me.prompt),
                             !.log = Append(log1, LogRec("INFO", "RESPONSE",
                                            GetItem(ld.cache, me.prompt)))]
             ELSE [me EXCEPT !.pc = "request", !.cache = ld.cache,
                             !.log = log1, !.reads = rd]]
    /\ UNCHANGED disk

\* the state of the invocation after the backend answered with `text`
Answered(me, text) ==
    LET next == AfterResponse(me.use_cache)
    IN  [me EXCEPT !.pc = next, !.requests = @ + 1,
                   !.response_text = text,
                   !.result = IF next = "returned" THEN text ELSE None,
                   !.log = Append(@, LogRec("INFO", "RESPONSE", text))]

\* lines 69-83 (and 101 when caching is off): one request to the backend
Request(p) ==
    /\ proc[p].pc = "request"
    /\ \E o \in BackendOutcomes :
         LET me == proc[p]
         IN  proc' = [proc EXCEPT ![p] =
               IF o.kind = "raise"
               THEN [me EXCEPT !.pc = OnBackendRaise, !.requests = @ + 1,
                               !.error = "BackendError"]
               ELSE Answered(me, o.text)]
    /\ UNCHANGED disk

\* lines 84-94: load the cache again and insert the new entry
Reload(p) ==
    /\ proc[p].pc = "reload"
    /\ LET ld   == LoadCache(file)
           me   == proc[p]
           log1 == IF ld.err
                   THEN Append(me.log, LogRec("ERROR", "LOAD", "Failed to load cache"))
                   ELSE me.log
           rd   == IF ld.opened THEN me.reads + 1 ELSE me.reads
       IN  proc' = [proc EXCEPT ![p] =
             IF SetItemRaises(ld.cache)
             THEN [me EXCEPT !.pc = "raised", !.error = "TypeError",
                             !.cache = ld.cache, !.log = log1, !.reads = rd]
             ELSE [me EXCEPT !.pc = "save_open", !.log = log1, !.reads = rd,
                             !.cache = SetItem(ld.cache, me.prompt, me.response_text)]]
    /\ UNCHANGED disk

\* the state of the invocation after its save failed
SaveFailed(me) ==
    [me EXCEPT !.pc = OnSaveError,
               !.error = IF OnSaveError = "raised" THEN "OSError" ELSE @,
               !.result = IF OnSaveError = "returned" THEN me.response_text ELSE None,
               !.log = Append(@, LogRec("ERROR", "SAVE", "Failed to save cache"))]

\* lines 95-96: open(cache_file, "w") truncates the file, or fails and
\* leaves it alone (lines 98-101)
SaveOpen(p) ==
    /\ proc[p].pc = "save_open"
    /\ \E ok \in BOOLEAN :
         LET me == proc[p]
         IN  IF ok
             THEN /\ file' = GarbageFile
                  /\ proc' = [proc EXCEPT ![p] =
                        [me EXCEPT !.pc = "save_dump", !.writes = @ + 1]]
             ELSE /\ file' = file
                  /\ proc' = [proc EXCEPT ![p] = SaveFailed(me)]
    /\ UNCHANGED last_saver

\* line 97 and the close of the with block: the whole map is written, or
\* the write fails and nothing reaches the truncated file (lines 98-101)
SaveDump(p) ==
    /\ proc[p].pc = "save_dump"
    /\ \E ok \in BOOLEAN :
         LET me == proc[p]
         IN  IF ok
             THEN /\ file' = json_dump(me.cache)
                  /\ last_saver' = p
                  /\ proc' = [proc EXCEPT ![p] =
                        [me EXCEPT !.pc = "returned", !.result = me.response_text,
                                   !.saved = TRUE]]
             ELSE /\ file' = file
                  /\ last_saver' = last_saver
                  /\ proc' = [proc EXCEPT ![p] = SaveFailed(me)]

\* the caller takes the result (or the exception) and may call again
\* (observe: whether the finished call is kept in `prev`)
Return(p, observe) ==
    /\ proc[p].pc \in {"returned", "raised"}
    /\ LET me == proc[p]
       IN  proc' = [proc EXCEPT ![p] =
             IdleProc(me.calls + 1,
                      IF ~observe THEN NoPrev ELSE
                      [outcome |-> me.pc, prompt |-> me.prompt,
                       use_cache |-> me.use_cache, result |-> me.result,
                       requests |-> me.requests, saved |-> me.saved,
                       hit |-> me.hit])]
    /\ UNCHANGED disk

\* the steps of a call_llm invocation once it is entered
Body(p) ==
    \/ Lookup(p)
    \/ Request(p)
    \/ Reload(p)
    \/ SaveOpen(p)
    \/ SaveDump(p)

\* a caller outside main: any prompt, caching on or off
Step(p, observe) ==
    \/ \E prompt \in Prompts, use_cache \in BOOLEAN :
          Call(p, prompt, use_cache, observe) /\ UNCHANGED <<main_vars, settled>>
    \/ Lookup(p) /\ UNCHANGED <<main_vars, settled>>
    \/ Request(p) /\ UNCHANGED <<main_vars, settled>>
    \/ Reload(p) /\ UNCHANGED <<main_vars, settled>>
    \/ SaveOpen(p) /\ UNCHANGED <<main_vars, settled>>
    \/ SaveDump(p) /\ UNCHANGED <<main_vars, settled>>
    \/ Return(p, observe) /\ UNCHANGED <<main_vars, settled>>

(***************************************************************************)
(* The flow that main creates and runs (lines 140-144).  Its stages are    *)
(* defined outside main.py; they are modelled from the design: six stages  *)
(* in a fixed order, each writing its one output field of the shared       *)
(* dictionary, the four middle ones calling call_llm with the dictionary's *)
(* use_cache flag, and a stage that raises aborting the run.               *)
(***************************************************************************)
Stages == << "fetch", "identify", "relationships", "order", "chapters", "combine" >>

NumStages == Len(Stages)

\* the field each stage writes
OutputField ==
    << "files", "abstractions", "relationships", "chapter_order", "chapters",
       "final_output_dir" >>

\* what a stage that completed leaves in its field
StageOutput(k) == IF k = NumStages THEN "output/project" ELSE << Stages[k] >>

\* the stages that talk to the model
LLMStages == {2, 3, 4, 5}

\* the process the run's stages call call_llm in
Runner == "A"

\* the flow running its stage k
Running(k) == [state |-> "running", stage |-> k, error |-> None]

\* lines 59-144 up to the start of the flow: the command line is parsed and
\* rejected, or the shared dictionary is built and the flow starts
Main(a) ==
    /\ flow.state = "not_started"
    /\ args' = a
    /\ IF SourceGroupOk(a)
       THEN /\ shared' = InitialShared(a)
            /\ flow' = Running(1)
       ELSE /\ shared' = shared
            /\ flow' = [state |-> "rejected", stage |-> 0, error |-> "usage"]
    /\ UNCHANGED <<disk, proc, settled>>

\* a stage calls the gateway
StageCall(k) ==
    /\ flow = Running(k)
    /\ k \in LLMStages
    /\ \E prompt \in Prompts : Call(Runner, prompt, shared.use_cache, FALSE)
    /\ UNCHANGED <<main_vars, settled>>

\* the gateway call made by the running stage goes on
StageCallStep ==
    /\ flow.state = "running"
    /\ Body(Runner)
    /\ UNCHANGED <<main_vars, settled>>

\* the gateway returned a response to the stage
StageReturn(k) ==
    /\ flow = Running(k)
    /\ proc[Runner].pc = "returned"
    /\ Return(Runner, FALSE)
    /\ UNCHANGED <<main_vars, settled>>

\* the stage completes: it writes its field and the next stage begins
StageDone(k) ==
    /\ flow = Running(k)
    /\ proc[Runner].pc = "idle"
    /\ shared' = [shared EXCEPT ![OutputField[k]] = StageOutput(k)]
    /\ flow' = IF k = NumStages
               THEN [state |-> "completed", stage |-> k, error |-> None]
               ELSE Running(k + 1)
    /\ UNCHANGED <<disk, proc, args, settled>>

\* the gateway call raised: the stage fails and the run is aborted
StageRaise(k) ==
    /\ flow = Running(k)
    /\ proc[Runner].pc = "raised"
    /\ Return(Runner, FALSE)
    /\ flow' = [state |-> "failed", stage |-> k, error |-> proc[Runner].error]
    /\ UNCHANGED <<args, shared, settled>>

\* the stage itself raises (a response it cannot parse, a failed fetch)
StageError(k) ==
    /\ flow = Running(k)
    /\ proc[Runner].pc = "idle"
    /\ flow' = [state |-> "failed", stage |-> k, error |-> "StageError"]
    /\ UNCHANGED <<disk, proc, args, shared, settled>>

PipeNext ==
    \/ \E a \in ArgSets : Main(a)
    \/ \E k \in 1..NumStages :
          \/ StageCall(k)
          \/ StageReturn(k)
          \/ StageDone(k)
          \/ StageRaise(k)
          \/ StageError(k)
    \/ StageCallStep

\* one run of main
PipeSpec == Init /\ [][PipeNext]_vars

\* one caller, its calls one after the other
SeqNext == Step("A", TRUE)

SeqSpec == Init /\ [][SeqNext]_vars

\* concurrent callers sharing the cache file
Next == \E p \in Procs : Step(p, FALSE)

Spec == Init /\ [][Next]_vars

(***************************************************************************)
(* The callers of Spec with a save that is atomic and succeeds: lines      *)
(* 95-97 in one step, the file going from its old content to the dumped    *)
(* map with no truncated state in between.                                 *)
(***************************************************************************)
SaveAtomic(p) ==
    /\ proc[p].pc = "save_open"
    /\ LET me == proc[p]
       IN  /\ file' = json_dump(me.cache)
           /\ last_saver' = p
           /\ proc' = [proc EXCEPT ![p] =
                 [me EXCEPT !.pc = "returned", !.result = me.response_text,
                            !.writes = @ + 1, !.saved = TRUE]]

\* the entries of the cache file: those of the map it holds, if it holds one
Entries(f) == IF f.kind = "object" THEN f.map ELSE EmptyMap

\* no invocation is in progress
Quiescent(procs) == \A p \in Procs : procs[p].pc = "idle"

\* the record of the entries seen in the file at quiescent moments: an entry
\* once recorded is kept, and the step that leaves a state in which no
\* invocation is in progress adds the entries the file held in that state
Settled(old, f, procs) ==
    IF Quiescent(procs)
    THEN [k \in Prompts |-> IF old[k] # Absent THEN old[k] ELSE Entries(f)[k]]
    ELSE old

Settle ==
    /\ settled' = Settled(settled, file, proc)
    /\ UNCHANGED main_vars

AtomicStep(p) ==
    \/ \E prompt \in Prompts, use_cache \in BOOLEAN :
          Call(p, prompt, use_cache, FALSE) /\ Settle
    \/ Lookup(p) /\ Settle
    \/ Request(p) /\ Settle
    \/ Reload(p) /\ Settle
    \/ SaveAtomic(p) /\ Settle
    \/ Return(p, FALSE) /\ Settle

AtomicNext == \E p \in Procs : AtomicStep(p)

AtomicSpec == Init /\ [][AtomicNext]_vars

(***************************************************************************)
(* Properties of call_llm called by one caller (SeqSpec).                  *)
(***************************************************************************)
Finished(me) == me.pc \in {"returned", "raised"}

\* the finished call and the one before it: the same prompt, caching on
Successive(me) ==
    /\ Finished(me)
    /\ me.use_cache
    /\ me.prev.outcome # "none"
    /\ me.prev.use_cache
    /\ me.prev.prompt = me.prompt

\* C1, as stated, read in its favour (the cache file is missing, unparsable
\* or a mapping, the first call missed and got its response, and no backend
\* request fails): two successive cache-enabled calls with the same prompt
\* make exactly one backend request in total and both return the same
\* response.
C1_ExactlyOneRequest ==
    \A p \in Procs :
        LET me == proc[p]
        IN  ( /\ Successive(me)
              /\ me.start.kind \in {"missing", "garbage", "object"}
              /\ me.prev.outcome = "returned"
              /\ ~me.prev.hit
              /\ me.error # "BackendError" ) =>
              /\ me.pc = "returned"
              /\ me.prev.requests + me.requests = 1
              /\ me.result = me.prev.result

\* C1, amended: when the first of two successive cache-enabled calls with
\* the same prompt returned after a backend request and a successful save,
\* the second makes no backend request (one in total) and returns the same
\* response.
C1_OneRequestAfterSavedMiss ==
    \A p \in Procs :
        LET me == proc[p]
        IN  ( /\ Successive(me)
              /\ me.prev.outcome = "returned"
              /\ me.prev.requests = 1
              /\ me.prev.saved ) =>
              /\ me.pc = "returned"
              /\ me.requests = 0
              /\ me.prev.requests + me.requests = 1
              /\ me.result = me.prev.result

C1_Witness ==
    \E p \in Procs :
        LET me == proc[p]
        IN  /\ Successive(me)
            /\ me.prev.outcome = "returned"
            /\ me.prev.requests = 1
            /\ me.prev.saved
            /\ me.pc = "returned"
            /\ me.result = "R1"

\* C2: a call with use_cache = False asks the backend exactly once, never
\* opens the cache file for reading or writing, and leaves the file as it
\* found it, whatever the file holds.
C2_CacheBypassed ==
    \A p \in Procs :
        LET me == proc[p]
        IN  (me.pc # "idle" /\ ~me.use_cache) =>
              /\ me.pc \in {"request", "returned", "raised"}
              /\ me.reads = 0
              /\ me.writes = 0
              /\ file = me.start
              /\ Finished(me) => me.requests = 1
              /\ me.pc = "returned" => me.result = me.response_text

C2_Witness ==
    \E p \in Procs :
        LET me == proc[p]
        IN  /\ me.pc = "returned"
            /\ ~me.use_cache
            /\ me.requests = 1
            /\ me.start.kind = "object"
            /\ me.start.map[me.prompt] = "R1"
            /\ me.result = "R2"
            /\ file = me.start

\* C3, as stated: with a cache file that is missing or does not hold a
\* prompt-to-response mapping, a cache-enabled call whose backend request
\* succeeded returns the backend's response and raises nothing.
C3_InvalidCacheTolerated ==
    \A p \in Procs :
        LET me == proc[p]
        IN  ( /\ Finished(me)
              /\ me.use_cache
              /\ me.start.kind # "object"
              /\ me.requests = 1
              /\ me.error # "BackendError" ) =>
              /\ me.pc = "returned"
              /\ me.result = me.response_text

\* the call missed: caching is off, or the prompt is not in what the
\* lookup loads from the file the call found
Missed(me) ==
    \/ ~me.use_cache
    \/ In(me.prompt, LoadCache(me.start).cache) = "false"

\* C5: a call makes at most one backend request, exactly one on a miss or
\* with caching off; when the request fails the call raises, returns no
\* response and leaves the cache file as it found it.
C5_OneRequestNoRetry ==
    \A p \in Procs :
        LET me == proc[p]
        IN  /\ me.requests <= 1
            /\ (Finished(me) /\ Missed(me)) => me.requests = 1
            /\ me.error = "BackendError" =>
                 /\ me.pc = "raised"
                 /\ me.result = None
                 /\ me.requests = 1
                 /\ me.writes = 0
                 /\ file = me.start

C5_Witness ==
    \E p \in Procs :
        LET me == proc[p]
        IN  /\ me.pc = "raised"
            /\ me.error = "BackendError"
            /\ me.use_cache
            /\ me.prev.saved
            /\ me.prev.prompt # me.prompt
            /\ file.kind = "object"
            /\ file.map[me.prev.prompt] = me.prev.result

(***************************************************************************)
(* Properties of concurrent callers of call_llm (Spec).                    *)
(***************************************************************************)

\* C4: a lookup that finds the prompt among the keys of the map it loads
\* returns the stored value without a backend request or a write; and the
\* cache file changes only in the save of a cache-enabled call that missed
\* and got a response from the backend.
C4_HitReturnsStored ==
    /\ [](\A p \in Procs :
            proc[p].hit =>
              /\ proc[p].pc = "returned"
              /\ proc[p].use_cache
              /\ proc[p].requests = 0
              /\ proc[p].writes = 0)
    /\ [][ /\ \A p \in Procs :
                ( /\ proc[p].pc = "lookup"
                  /\ proc'[p].pc # "lookup"
                  /\ file.kind = "object"
                  /\ file.map[proc[p].prompt] # Absent ) =>
                  /\ proc'[p].pc = "returned"
                  /\ proc'[p].hit
                  /\ proc'[p].result = file.map[proc[p].prompt]
                  /\ file' = file
           /\ file' # file =>
                \E p \in Procs :
                  /\ proc[p].pc \in {"save_open", "save_dump"}
                  /\ proc'[p].pc # proc[p].pc
                  /\ proc[p].use_cache
                  /\ ~proc[p].hit
                  /\ proc[p].requests = 1
                  /\ proc[p].response_text \in Responses ]_vars

C4_Witness ==
    \E p, q \in Procs :
        /\ p # q
        /\ proc[q].saved
        /\ proc[p].pc = "returned"
        /\ proc[p].hit
        /\ proc[p].prompt = proc[q].prompt
        /\ proc[p].result = proc[q].response_text
        /\ file.kind = "object"

\* C6: of two finished cache-enabled calls for the same prompt that both
\* missed, asked the backend and saved, the cache file holds for the prompt
\* the response of the one whose save came last.
C6_LastWriterWins ==
    \A p, q \in Procs :
        ( /\ p # q
          /\ proc[p].pc = "returned" /\ proc[q].pc = "returned"
          /\ proc[p].saved /\ proc[q].saved
          /\ proc[p].prompt = proc[q].prompt
          /\ last_saver = q ) =>
          /\ file.kind = "object"
          /\ file.map[proc[q].prompt] = proc[q].response_text

C6_Witness ==
    \E p, q \in Procs :
        /\ p # q
        /\ proc[p].pc = "returned" /\ proc[q].pc = "returned"
        /\ proc[p].saved /\ proc[q].saved
        /\ ~proc[p].hit /\ ~proc[q].hit
        /\ proc[p].requests = 1 /\ proc[q].requests = 1
        /\ proc[p].writes = 1 /\ proc[q].writes = 1
        /\ proc[p].prompt = proc[q].prompt
        /\ proc[p].result = "R1" /\ proc[q].result = "R2"
        /\ last_saver = q
        /\ file.kind = "object"
        /\ file.map[proc[p].prompt] = "R2"

\* C7: of two finished cache-enabled calls for different prompts that both
\* missed, asked the backend and saved, the one whose save came last left
\* in the file exactly the map it had reloaded with its own entry added:
\* the other's entry is in the file only if that reload saw it, and neither
\* call raised.
C7_LastSaveOverwrites ==
    \A p, q \in Procs :
        ( /\ p # q
          /\ proc[p].pc = "returned" /\ proc[q].pc = "returned"
          /\ proc[p].saved /\ proc[q].saved
          /\ proc[p].prompt # proc[q].prompt
          /\ last_saver = q ) =>
          /\ file.kind = "object"
          /\ file.map = proc[q].cache.map
          /\ file.map[proc[q].prompt] = proc[q].response_text
          /\ proc[p].error = None /\ proc[q].error = None

C7_Witness ==
    \E p, q \in Procs :
        /\ p # q
        /\ proc[p].pc = "returned" /\ proc[q].pc = "returned"
        /\ proc[p].saved /\ proc[q].saved
        /\ proc[p].requests = 1 /\ proc[q].requests = 1
        /\ proc[p].prompt # proc[q].prompt
        /\ proc[p].result = "R1" /\ proc[q].result = "R2"
        /\ last_saver = q
        /\ file.kind = "object"
        /\ file.map[proc[q].prompt] = "R2"
        /\ file.map[proc[p].prompt] = Absent

(***************************************************************************)
(* Properties of a failed save (SeqSpec).                                  *)
(***************************************************************************)
\* the call logged "Failed to save cache"
SaveErrorLogged(me) == \E i \in 1..Len(me.log) : me.log[i].tag = "SAVE"

\* C8, as stated: when the backend answered and the save failed, the call
\* returns the response and raises nothing, and the cache holds what it
\* held when the call began: a load of the file yields the same map.
C8_OnlyNewEntryLost ==
    \A p \in Procs :
        LET me == proc[p]
        IN  SaveErrorLogged(me) =>
              /\ me.pc = "returned"
              /\ me.result = me.response_text
              /\ LoadCache(file).cache = LoadCache(me.start).cache

\* C8, amended: when the backend answered and the save failed, the call
\* returns the response and raises nothing and the new entry is not in
\* the file; the file is as the call found it when the open failed, and
\* is left truncated, the entries it held lost, when the write failed.
C8_FailedSaveReturnsResponse ==
    \A p \in Procs :
        LET me == proc[p]
        IN  SaveErrorLogged(me) =>
              /\ me.pc = "returned"
              /\ me.error = None
              /\ me.requests = 1
              /\ me.response_text \in Responses
              /\ me.result = me.response_text
              /\ file.map[me.prompt] = Absent
              /\ me.writes = 0 => file = me.start
              /\ me.writes = 1 => file = GarbageFile

C8_Witness ==
    \E p \in Procs :
        LET me == proc[p]
        IN  /\ SaveErrorLogged(me)
            /\ me.pc = "returned"
            /\ me.result = "R1"
            /\ me.writes = 1
            /\ me.start.kind = "object"
            /\ \E other \in Prompts : me.start.map[other] = "R2"
            /\ file = GarbageFile

\* C12: a backend call that answers with an empty text is a backend call
\* error: the invocation raises, it returns nothing to its caller and saves
\* nothing to the cache file.
C12_EmptyResponseIsError ==
    \A p \in Procs :
        LET me == proc[p]
        IN  (Finished(me) /\ me.requests = 1 /\ me.response_text = "") =>
                /\ me.pc = "raised"
                /\ me.error = "BackendError"
                /\ me.result = None
                /\ ~me.saved

\* the records of the log with the given tag
Tagged(log, tag) == {i \in 1..Len(log) : log[i].tag = tag}

LoadError == LogRec("ERROR", "LOAD", "Failed to load cache")

SaveError == LogRec("ERROR", "SAVE", "Failed to save cache")

\* C13 as stated: a lookup or a reload that finds the cache file missing or
\* unparsable appends the load error record to the log, and a save that
\* fails appends the save error record.
C13_EveryCacheFailureLogged ==
    [][ \A p \in Procs :
          LET me  == proc[p]
              me2 == proc'[p]
          IN  /\ (me.pc \in {"lookup", "reload"} /\ me2.pc # me.pc
                  /\ file.kind \in {"missing", "garbage"}) =>
                    /\ Len(me2.log) > Len(me.log)
                    /\ me2.log[Len(me.log) + 1] = LoadError
              /\ (me.pc \in {"save_open", "save_dump"}
                  /\ me2.pc \notin {"save_open", "save_dump"}
                  /\ ~me2.saved) =>
                    me2.log = Append(me.log, SaveError) ]_vars

\* C13: every failure of the cache I/O that the code detects is logged in
\* the step that meets it: a lookup or a reload that finds the file present
\* but unparsable appends the load error record, and only then (a missing
\* file is an empty cache and nothing is logged); a save that fails, at the
\* open or at the write, appends the save error record and the invocation
\* goes on to return its response.
C13_DetectedFailuresLogged ==
    [][ \A p \in Procs :
          LET me  == proc[p]
              me2 == proc'[p]
              new == {i \in 1..Len(me2.log) : i > Len(me.log)}
          IN  /\ (me.pc \in {"lookup", "reload"} /\ me2.pc # me.pc) =>
                    /\ SubSeq(me2.log, 1, Len(me.log)) = me.log
                    /\ IF file.kind = "garbage"
                       THEN /\ Len(me2.log) > Len(me.log)
                            /\ me2.log[Len(me.log) + 1] = LoadError
                       ELSE \A i \in new : me2.log[i].level # "ERROR"
              /\ (me.pc \in {"save_open", "save_dump"}
                  /\ me2.pc \notin {"save_open", "save_dump"}
                  /\ ~me2.saved) =>
                    /\ me2.log = Append(me.log, SaveError)
                    /\ me2.pc = "returned"
                    /\ me2.result = me.response_text ]_vars

\* the load failed at the lookup and at the reload, and then the save failed
C13_Witness ==
    \E p \in Procs :
        /\ proc[p].pc = "returned"
        /\ Len(proc[p].log) = 6
        /\ proc[p].log[3] = LoadError
        /\ proc[p].log[4].tag = "RESPONSE"
        /\ proc[p].log[5] = LoadError
        /\ proc[p].log[6] = SaveError

\* C14 as stated: the log of a finished invocation is exactly one record.
C14_ExactlyOneRecord ==
    \A p \in Procs : Finished(proc[p]) => Len(proc[p].log) = 1

\* C14: every invocation appends first a record with the prompt and then a
\* record with the token estimate (a quarter of the prompt's length); one
\* that returns, from a cache hit or from the backend, has appended exactly
\* one record with a response, the text it returns; one whose backend
\* request failed has appended no response record and no record of the
\* failure: besides the first two, its log holds at most the error record
\* of a failed cache load.
C14_PromptTokensResponseLogged ==
    \A p \in Procs :
        LET me == proc[p]
        IN  Finished(me) =>
              /\ Len(me.log) >= 2
              /\ me.log[1] = LogRec("INFO", "PROMPT", me.prompt)
              /\ me.log[2] = LogRec("INFO", "TOKENS", ToString(Len(me.prompt) \div 4))
              /\ Tagged(me.log, "PROMPT") = {1}
              /\ Tagged(me.log, "TOKENS") = {2}
              /\ me.pc = "returned" =>
                    \E i \in 3..Len(me.log) :
                        /\ Tagged(me.log, "RESPONSE") = {i}
                        /\ me.log[i] = LogRec("INFO", "RESPONSE", me.result)
              /\ (me.pc = "raised" /\ me.error = "BackendError") =>
                    /\ me.requests = 1
                    /\ me.log \in {SubSeq(me.log, 1, 2),
                                   Append(SubSeq(me.log, 1, 2), LoadError)}

\* a backend failure: the prompt and the estimate are all the log holds
C14_Witness ==
    \E p \in Procs :
        /\ proc[p].pc = "raised"
        /\ proc[p].error = "BackendError"
        /\ proc[p].prompt = "Hello, how are you?"
        /\ proc[p].log = << LogRec("INFO", "PROMPT", "Hello, how are you?"),
                            LogRec("INFO", "TOKENS", "4") >>

\* the dict with the one entry prompt: text
OnlyEntry(prompt, text) ==
    [type |-> "dict", map |-> [EmptyMap EXCEPT ![prompt] = text], elems |-> {}]

\* C16: the reload of a cache-enabled miss takes the map the file holds at
\* that moment (the empty map when the file is missing or unparsable),
\* whoever wrote it since the lookup, and sets P to R in it; that map is not
\* touched until the save, and a successful save leaves exactly it in the
\* file.  A call that never found a file leaves exactly {P: R} (for as long
\* as the file is the one it wrote: no later save, whole or cut short).
C16_SaveWritesReloadedMap ==
    /\ [][ \A p \in Procs :
            LET me  == proc[p]
                me2 == proc'[p]
            IN  /\ (me.pc = "reload" /\ me2.pc = "save_open") =>
                      /\ me2.cache.type = "dict"
                      /\ me2.cache.map =
                           [(IF file.kind = "object" THEN file.map ELSE EmptyMap)
                               EXCEPT ![me.prompt] = me.response_text]
                /\ (me.pc = "save_open" /\ me2.pc = "save_dump") =>
                      me2.cache = me.cache
                /\ (me.pc = "save_dump" /\ me2.saved) =>
                      /\ me2.pc = "returned"
                      /\ me2.result = me.response_text
                      /\ file'.kind = "object"
                      /\ file'.map = me.cache.map ]_vars
    /\ [](\A p \in Procs :
            (/\ proc[p].pc = "returned" /\ proc[p].saved /\ last_saver = p
             /\ proc[p].reads = 0
             /\ file.kind = "object") =>
                json_load(file) = OnlyEntry(proc[p].prompt, proc[p].response_text))

\* p found no file at its lookup, q saved its entry before p's reload, and
\* p's save kept q's entry beside its own
C16_Witness ==
    \E p, q \in Procs :
        /\ proc[p].pc = "returned" /\ proc[p].saved /\ last_saver = p
        /\ proc[p].reads = 1
        /\ Tagged(proc[p].log, "LOAD") = {}
        /\ proc[q].pc = "returned" /\ proc[q].saved
        /\ proc[q].prompt # proc[p].prompt
        /\ file.kind = "object"
        /\ file.map[proc[p].prompt] = proc[p].response_text
        /\ file.map[proc[q].prompt] = proc[q].response_text

\* the reload of the invocation failed: a load error logged after the response
ReloadFailed(me) ==
    \E i, j \in 1..Len(me.log) :
        i < j /\ me.log[i].tag = "RESPONSE" /\ me.log[j] = LoadError

\* C18: a reload that meets the file another invocation's save has
\* truncated and not yet written fails, is logged, and leaves the
\* invocation with a map holding its own entry alone, with no error for its
\* caller; when that invocation then saves, and its save is the last, the
\* file holds that one entry and nothing of what it held before.
C18_TruncatedReloadErases ==
    /\ [][ \A q \in Procs :
            LET me  == proc[q]
                me2 == proc'[q]
            IN  (me.pc = "reload" /\ me2.pc # "reload" /\ file.kind = "garbage") =>
                    /\ me2.pc = "save_open"
                    /\ me2.error = None
                    /\ me2.cache = OnlyEntry(me.prompt, me.response_text)
                    /\ me2.log = Append(me.log, LoadError) ]_vars
    /\ [](\A q \in Procs :
            (/\ proc[q].pc = "returned" /\ proc[q].saved /\ last_saver = q
             /\ file.kind = "object"
             /\ ReloadFailed(proc[q])) =>
                /\ proc[q].error = None
                /\ proc[q].result = proc[q].response_text
                /\ file.map[proc[q].prompt] = proc[q].response_text
                /\ \A k \in Prompts \ {proc[q].prompt} : file.map[k] = Absent)

\* the first calls of a and b, both for the same prompt: a reloaded the
\* entry the file held for the other prompt and saved it with its own "R1";
\* b reloaded while a's save had the file truncated, and saved last: the
\* file holds b's "R2" alone, and both callers got their responses
C18_Witness ==
    \E a, b \in Procs :
        /\ a # b
        /\ proc[a].calls = 0 /\ proc[b].calls = 0
        /\ proc[a].pc = "returned" /\ proc[a].saved /\ proc[a].error = None
        /\ proc[b].pc = "returned" /\ proc[b].saved /\ proc[b].error = None
        /\ proc[a].prompt = "Hello, how are you?"
        /\ proc[b].prompt = "Hello, how are you?"
        /\ proc[a].result = "R1" /\ proc[b].result = "R2"
        /\ proc[a].cache.map["Identify abstractions in file X"] = "R1"
        /\ proc[a].cache.map["Hello, how are you?"] = "R1"
        /\ ~ReloadFailed(proc[a])
        /\ ReloadFailed(proc[b])
        /\ last_saver = b
        /\ json_load(file) = OnlyEntry("Hello, how are you?", "R2")

(***************************************************************************)
(* Properties of concurrent callers whose saves are atomic (AtomicSpec).   *)
(***************************************************************************)
\* C17: with atomic, successful saves, an entry that the cache file held at
\* a moment when no invocation was in progress is in the file, with the
\* same value, in every later state: whatever calls run afterwards, with
\* whatever prompts and use_cache values, none evicts it and none
\* overwrites it.
C17_SettledEntriesKept ==
    \A k \in Prompts :
        settled[k] # Absent => (file.kind = "object" /\ file.map[k] = settled[k])

\* an entry recorded at a moment of rest; later, in the second call of each
\* caller, one hits it while the other saves an entry for the other prompt
C17_Witness ==
    \E p, q \in Procs, k \in Prompts :
        /\ settled[k] = "R1"
        /\ proc[p].calls = 1 /\ proc[q].calls = 1
        /\ proc[p].pc = "returned" /\ proc[p].hit
        /\ proc[p].prompt = k /\ proc[p].result = "R1"
        /\ proc[q].pc = "returned" /\ proc[q].saved
        /\ proc[q].prompt # k
        /\ file.map[k] = "R1"
        /\ file.map[proc[q].prompt] = "R2"
        /\ settled[proc[q].prompt] = Absent

(***************************************************************************)
(* Properties of a run of main (PipeSpec).                                 *)
(***************************************************************************)
\* the output field of stage j holds what main put there
IsUnset(j) ==
    IF j = NumStages THEN shared.final_output_dir = None
    ELSE shared[OutputField[j]] = <<>>

\* the output field of stage j holds what the stage writes
IsSet(j) == shared[OutputField[j]] = StageOutput(j)

\* C9: when a stage raises, the run halts in the failed state: the error is
\* the run's outcome, no later stage runs (their fields stay unset, nothing
\* changes any more) and final_output_dir stays None.
C9_FailedRunHalts ==
    /\ [](flow.state = "failed" =>
            /\ flow.error # None
            /\ shared.final_output_dir = None
            /\ \A j \in flow.stage..NumStages : IsUnset(j)
            /\ proc[Runner].pc = "idle")
    /\ [][ /\ flow.state = "failed" => UNCHANGED <<flow, shared, proc, file>>
           /\ (flow.state = "running" /\ proc[Runner].pc = "raised") =>
                /\ flow'.state = "failed"
                /\ flow'.stage = flow.stage
                /\ flow'.error = proc[Runner].error ]_vars

C9_Witness ==
    /\ flow.state = "failed"
    /\ flow.stage = 3
    /\ flow.error = "BackendError"
    /\ IsSet(1) /\ IsSet(2)
    /\ shared.final_output_dir = None

\* C10: the stages run in the fixed order, the next one only after the one
\* before completed: while stage k runs, the fields of the stages before k
\* are set and those of k and of the later stages are unset; a stage that
\* completes sets its own field; and a field once set never changes.
C10_StagesInOrder ==
    /\ [](flow.state = "running" =>
            \A j \in 1..NumStages :
                IF j < flow.stage THEN IsSet(j) ELSE IsUnset(j))
    /\ [](flow.state = "completed" => \A j \in 1..NumStages : IsSet(j))
    /\ [][ /\ \A j \in 1..NumStages :
                ~IsUnset(j) => shared'[OutputField[j]] = shared[OutputField[j]]
           /\ (flow.state = "running" /\ flow' # flow) =>
                \/ /\ flow'.state = "failed"
                   /\ flow'.stage = flow.stage
                   /\ shared' = shared
                \/ /\ proc[Runner].pc = "idle"
                   /\ IsUnset(flow.stage)
                   /\ shared'[OutputField[flow.stage]] = StageOutput(flow.stage)
                   /\ IF flow.stage = NumStages
                      THEN flow'.state = "completed"
                      ELSE flow' = Running(flow.stage + 1)
           /\ (flow.state = "not_started" /\ flow' # flow) =>
                flow' = Running(1) \/ flow'.state = "rejected" ]_vars

C10_Witness ==
    /\ flow.state = "completed"
    /\ \A j \in 1..NumStages : IsSet(j)
    /\ shared.final_output_dir = "output/project"
    /\ proc[Runner].calls >= 1

\* the shared dictionary before main built it, as Init leaves it
NotBuilt == shared = InitialShared(NoArgs)

\* C11: a command line that gives both --repo and --dir, or neither, is
\* rejected before the flow starts: the run is in the rejected state, the
\* shared dictionary is never built, no stage runs and no call_llm call is
\* made, and nothing changes afterwards; a run whose flow started has a
\* dictionary in which exactly one of repo_url and local_dir is not None.
C11_BadSourceRejected ==
    /\ [](flow.state # "not_started" =>
            IF (args.repo # None /\ args.dir # None)
               \/ (args.repo = None /\ args.dir = None)
            THEN /\ flow.state = "rejected"
                 /\ flow.stage = 0
                 /\ NotBuilt
                 /\ \A j \in 1..NumStages : IsUnset(j)
                 /\ proc[Runner] = IdleProc(0, NoPrev)
            ELSE /\ flow.state \in {"running", "completed", "failed"}
                 /\ shared.repo_url = args.repo
                 /\ shared.local_dir = args.dir
                 /\ (shared.repo_url # None) # (shared.local_dir # None))
    /\ [][flow.state = "rejected" => UNCHANGED vars]_vars

C11_Witness ==
    /\ flow.state = "rejected"
    /\ args.repo = "https://github.com/o/r"
    /\ args.dir = "/repo"
    /\ NotBuilt

\* C15: in the dictionary main hands to the flow, include_patterns is the
\* --include list when one is given, otherwise the text-only include set
\* under --text-only, otherwise the code include set; exclude_patterns is
\* chosen the same way from --exclude and the two exclude sets, whatever
\* --include is.
C15_PatternsSelected ==
    flow.state \in {"running", "completed", "failed"} =>
        /\ shared.text_only = args.text_only
        /\ shared.include_patterns =
              CASE args.include # {} -> args.include
                [] args.include = {} /\ args.text_only -> TEXT_ONLY_INCLUDE_PATTERNS
                [] OTHER -> DEFAULT_INCLUDE_PATTERNS
        /\ shared.exclude_patterns =
              CASE args.exclude # {} -> args.exclude
                [] args.exclude = {} /\ args.text_only -> TEXT_ONLY_EXCLUDE_PATTERNS
                [] OTHER -> DEFAULT_EXCLUDE_PATTERNS

\* --text-only with an explicit --include and no --exclude: the include
\* list is the user's, the exclude set is the text-only one
C15_Witness ==
    /\ flow.state = "running"
    /\ args.text_only
    /\ args.include = {"*.py", "*.js"}
    /\ args.exclude = {}
    /\ shared.include_patterns = {"*.py", "*.js"}
    /\ shared.exclude_patterns = TEXT_ONLY_EXCLUDE_PATTERNS
    /\ "docs/*" \notin shared.exclude_patterns

====
